---- MODULE Spec2Model ----
(***************************************************************************)
(* The PurgeCSS plugin of src/src/index.ts as a state machine.             *)
(*                                                                         *)
(* One plugin instance (one call of purgeCss) owns the closure state       *)
(* selectors, standard, moduleIds and viteConfig.  The host calls the      *)
(* hooks load, configResolved and generateBundle.  generateBundle is an   *)
(* async function: it runs synchronously up to each await of the purge     *)
(* engine.  Its position is pc; the loops are unrolled one iteration per   *)
(* step.  Variables whose comment says "history" record what the pass did  *)
(* and are never read by the plugin's actions.                             *)
(***************************************************************************)
EXTENDS Integers, Sequences, FiniteSets, TLC

VARIABLES
    purgeOptions,  \* the argument of purgeCss
    viteConfig,    \* closure: let viteConfig (set by configResolved)
    selectors,     \* closure: new Set<string>(), in insertion order
    standard,      \* closure: the standard safelist array
    moduleIds,     \* closure: new Set<string>(), in insertion order
    moduleInfo,    \* host: what this.getModuleInfo(id) returns
    pc,            \* position of generateBundle
    bundle,        \* the bundle argument of the running generateBundle
    assets,        \* local: the CSS assets picked by the classify loop
    i,             \* scan loop: index into moduleIds
    j,             \* validation loop: index into selectors
    k,             \* purge loop: index into assets
    error,         \* the error generateBundle rejected with
    passNo,        \* number of generateBundle calls so far
    bundle0,       \* history: the bundle when the pass started
    selectors0,    \* history: selectors when the pass started
    scanned,       \* history: ids whose code was parsed in this pass
    contrib,       \* history: <<id, token>> added-from pairs of this pass
    validated,     \* history: tokens the validation loop has handled
    calls,         \* history: the options of every purge() call of the pass
    results,       \* history: what each awaited purge() call settled with
    standard0,     \* history: standard when the pass started
    hostOps        \* history: the deletions and emitFile calls of this pass

vars == <<purgeOptions, viteConfig, selectors, standard, moduleIds, moduleInfo,
          pc, bundle, assets, i, j, k, error, passNo, bundle0, selectors0,
          scanned, contrib, validated, calls, results, standard0, hostOps>>

closureVars == <<purgeOptions, viteConfig, selectors, standard, moduleIds>>
historyVars == <<bundle0, selectors0, scanned, contrib, validated, calls,
                 results, standard0, hostOps>>

-----------------------------------------------------------------------------
(* Bounds *)

MaxPasses == 2     \* generateBundle calls on one plugin instance
MaxBundle == 3     \* entries in one output bundle

-----------------------------------------------------------------------------
(* Sequence helpers *)

Range(s) == {s[n] : n \in 1..Len(s)}

Has(s, x) == \E n \in 1..Len(s) : s[n] = x

\* Set.prototype.add on a Set kept in insertion order
SetAdd(s, x) == IF Has(s, x) THEN s ELSE Append(s, x)

RECURSIVE SetAddAll(_, _)
SetAddAll(s, xs) ==
    IF xs = <<>> THEN s ELSE SetAddAll(SetAdd(s, Head(xs)), Tail(xs))

RECURSIVE Concat(_)
Concat(ss) == IF ss = <<>> THEN <<>> ELSE Head(ss) \o Concat(Tail(ss))

Count(s, x) == Cardinality({n \in 1..Len(s) : s[n] = x})

NoDuplicates(s) == \A n, m \in 1..Len(s) : s[n] = s[m] => n = m

\* an optional value: absent (undefined / null) or present
Absent == [has |-> FALSE, val |-> <<>>]
Some(v) == [has |-> TRUE, val |-> v]

\* a ?? d
Nullish(a, d) == IF a.has THEN a.val ELSE d

-----------------------------------------------------------------------------
(* Names.  A module id or file name is the sequence of its dot-separated   *)
(* segments, so that the extension test is computed from the name.         *)

\* const EXT_CSS = /\.(css)$/ ; EXT_CSS.test(name)
EXT_CSS(name) == Len(name) >= 2 /\ name[Len(name)] = "css"

ModA == <<"src/a", "js">>
ModB == <<"src/b", "svelte">>
ModCss == <<"src/app", "css">>
ModuleIdPool == {ModA, ModB, ModCss}

-----------------------------------------------------------------------------
(* Module code, syntax trees, tokens *)

NoStr == [has |-> FALSE, val |-> ""]
Str(v) == [has |-> TRUE, val |-> v]

Literal(v) ==
    [type |-> "Literal", valueIsString |-> TRUE, value |-> v, name |-> "",
     cooked |-> NoStr]
NumericLiteral ==
    [type |-> "Literal", valueIsString |-> FALSE, value |-> "", name |-> "",
     cooked |-> NoStr]
Identifier(n) ==
    [type |-> "Identifier", valueIsString |-> FALSE, value |-> "", name |-> n,
     cooked |-> NoStr]
TemplateElement(c, raw) ==
    [type |-> "TemplateElement", valueIsString |-> FALSE, value |-> raw,
     name |-> "", cooked |-> c]
OtherNode(t) ==
    [type |-> t, valueIsString |-> FALSE, value |-> "", name |-> "",
     cooked |-> NoStr]

\* this.parse(info.code): the nodes of the tree in the order walk() enters
\* them, or a thrown error
Parse(code) ==
    CASE code = "codeA" ->
           [ok |-> TRUE,
            ast |-> << OtherNode("Program"), Literal("btn *"), NumericLiteral,
                       Identifier("foo") >>]
      [] code = "codeB" ->
           [ok |-> TRUE,
            ast |-> << OtherNode("Program"),
                       TemplateElement(Str("item-"), "item-"),
                       TemplateElement(NoStr, "a] ["), Literal("btn") >>]
      [] OTHER -> [ok |-> FALSE, ast |-> <<>>]

\* defaultExtractor(): text -> candidate tokens, split at whitespace
DefaultExtractor(text) ==
    CASE text = "btn *" -> <<"btn", "*">>
      [] text = "a] [" -> <<"a]", "[">>
      [] OTHER -> <<text>>

\* a user extractor (purgeOptions.defaultExtractor): the whole text is one
\* token
UserExtractor(text) == <<text>>

\* const extractor = purgeOptions?.defaultExtractor ?? defaultExtractor()
Extractor(opts, text) ==
    IF opts.defined /\ opts.defaultExtractor
    THEN UserExtractor(text)
    ELSE DefaultExtractor(text)

\* the enter() callback of walk(): the texts one node hands to the extractor
NodeTexts(node) ==
    (IF node.type = "Literal" /\ node.valueIsString THEN <<node.value>> ELSE <<>>)
    \o (IF node.type = "Identifier" THEN <<node.name>> ELSE <<>>)
    \o (IF node.type = "TemplateElement"
        THEN <<IF node.cooked.has THEN node.cooked.val ELSE node.value>>
        ELSE <<>>)

RECURSIVE WalkTokens(_, _)
\* walk(ast, {enter}): every token the extractor returns, in visiting order
WalkTokens(opts, ast) ==
    IF ast = <<>> THEN <<>>
    ELSE Concat([n \in 1..Len(NodeTexts(Head(ast))) |->
                    Extractor(opts, NodeTexts(Head(ast))[n])])
         \o WalkTokens(opts, Tail(ast))

\* parse(selector) of css-what returns (does not throw)
CssWhatParses(t) == t \in {"btn", "*", "foo", "item-", "btn *"}

\* new RegExp(selector) returns (does not throw)
RegExpCompiles(t) == t \in {"btn", "foo", "item-", "a]", "btn *"}

\* variant: the pattern compilation is not attempted
IsValidSelectorParseOnly(t) == CssWhatParses(t)

\* the try block of the validation loop reaches standard.push(selector)
IsValidSelector(t) == CssWhatParses(t) /\ RegExpCompiles(t)

-----------------------------------------------------------------------------
(* Safelist *)

StrEntry(s) == [kind |-> "string", src |-> s]
ReEntry(s) == [kind |-> "regexp", src |-> s]

Baseline ==
    << StrEntry("*"), StrEntry("html"), StrEntry("body"),
       ReEntry("aria-current"), ReEntry("svelte-"), ReEntry("^\\:[-a-z]+$") >>

BaselineGreedy == << ReEntry("svelte-") >>

\* purgeOptions?.safelist?.standard
UserStandard(opts) ==
    IF opts.defined /\ opts.safelist.has THEN opts.safelist.val.standard ELSE Absent

\* purgeOptions?.safelist?.greedy
UserGreedy(opts) ==
    IF opts.defined /\ opts.safelist.has THEN opts.safelist.val.greedy ELSE Absent

\* purgeOptions?.content
UserContent(opts) == IF opts.defined THEN opts.content ELSE Absent

\* variant: a configured standard list takes the place of the baseline
InitialStandardUserReplaces(opts) == Nullish(UserStandard(opts), Baseline)

\* const standard = [ ...baseline, ...(purgeOptions?.safelist?.standard ?? []) ]
InitialStandard(opts) == Baseline \o Nullish(UserStandard(opts), <<>>)

\* safelist: { ...purgeOptions?.safelist, standard, greedy: [/svelte-/, ...] }
MergedSafelist(opts, std) ==
    [standard |-> std,
     greedy |-> BaselineGreedy \o Nullish(UserGreedy(opts), <<>>),
     deep |-> IF opts.defined /\ opts.safelist.has
              THEN opts.safelist.val.deep ELSE Absent]

NoSafelist == [has |-> FALSE, val |-> [standard |-> Absent, greedy |-> Absent,
                                        deep |-> Absent]]
Safelist(s, g, d) == [has |-> TRUE, val |-> [standard |-> s, greedy |-> g,
                                              deep |-> d]]

Options(sl, content, ex) ==
    [defined |-> TRUE, safelist |-> sl, content |-> content,
     defaultExtractor |-> ex]

\* purgeCss() called without an argument
NoOptions ==
    [defined |-> FALSE, safelist |-> NoSafelist, content |-> Absent,
     defaultExtractor |-> FALSE]

\* the user configurations considered
OptionsPool ==
    { NoOptions,
      Options(NoSafelist, Absent, FALSE),
      Options(Safelist(Absent, Absent, Absent), Absent, FALSE),
      Options(Safelist(Some(<<>>), Some(<<>>), Absent), Absent, FALSE),
      Options(Safelist(Some(<<StrEntry("keep"), ReEntry("^tw-")>>), Absent,
                       Some(<<ReEntry("modal")>>)),
              Some(<<"./src/**/*.svelte">>), FALSE),
      Options(Safelist(Absent, Some(<<ReEntry("data-")>>), Absent), Absent, TRUE) }

-----------------------------------------------------------------------------
(* Host state: module information *)

NoInfo == [exists |-> FALSE, isIncluded |-> "null", code |-> NoStr]
Info(inc, code) == [exists |-> TRUE, isIncluded |-> inc, code |-> code]

\* what this.getModuleInfo(id) returns for the two script modules: null, a
\* module dropped by tree-shaking (isIncluded false or not yet known), an
\* included module without code, with code, with code this.parse rejects
InfoChoicesA ==
    { NoInfo, Info("false", Str("codeA")), Info("true", Str("codeA")),
      Info("true", Str("broken")) }

InfoChoicesB ==
    { Info("null", Str("codeB")), Info("true", NoStr), Info("true", Str("codeB")),
      Info("false", Str("codeB")) }

ModuleInfos ==
    { [id \in ModuleIdPool |->
          IF id = ModA THEN a ELSE IF id = ModB THEN b ELSE Info("true", Str("css"))] :
      a \in InfoChoicesA, b \in InfoChoicesB }

\* if (info?.isIncluded !== true || info.code === null) continue;
Skipped(info) == ~info.exists \/ info.isIncluded # "true" \/ ~info.code.has

-----------------------------------------------------------------------------
(* Output bundle: the entries in Object.entries() order *)

Css(pad, rules) == [pad |-> pad, rules |-> rules]

\* String.prototype.trim
Trim(source) == [source EXCEPT !.pad = FALSE]

Entry(fileName, type, name, source) ==
    [fileName |-> fileName, type |-> type, name |-> name, source |-> source]

EntryPool ==
    << Entry(<<"assets/a", "css">>, "asset", "style.css",
             Css(TRUE, <<".btn", ".unused">>)),
       Entry(<<"assets/b", "css">>, "asset", "page.css", Css(FALSE, <<"body">>)),
       Entry(<<"assets/c", "css">>, "chunk", "c", Css(FALSE, <<"export">>)),
       Entry(<<"assets/a", "css", "map">>, "asset", "style.css.map",
             Css(FALSE, <<"mappings">>)) >>

RECURSIVE Pick(_, _)
\* the entries of pool whose index is in idx, in pool order
Pick(pool, idx) ==
    IF pool = <<>> THEN <<>>
    ELSE (IF Len(pool) \in idx THEN Pick(SubSeq(pool, 1, Len(pool) - 1), idx)
                                     \o <<pool[Len(pool)]>>
          ELSE Pick(SubSeq(pool, 1, Len(pool) - 1), idx))

Bundles ==
    { Pick(EntryPool, idx) :
        idx \in {x \in SUBSET (1..Len(EntryPool)) : Cardinality(x) <= MaxBundle} }

Keys(b) == {b[n].fileName : n \in 1..Len(b)}

Lookup(b, f) == b[CHOOSE n \in 1..Len(b) : b[n].fileName = f]

\* delete bundle[key]
DeleteKey(b, key) == SelectSeq(b, LAMBDA e : e.fileName # key)

\* this.emitFile(file) with a fileName: bundle[file.fileName] = file
EmitFile(b, file) ==
    IF file.fileName \in Keys(b)
    THEN [n \in 1..Len(b) |-> IF b[n].fileName = file.fileName THEN file ELSE b[n]]
    ELSE Append(b, file)

\* variant: the type of the entry is not looked at
IsCssAssetAnyType(e) == EXT_CSS(e.fileName)

\* chunkOrAsset.type === 'asset' && EXT_CSS.test(fileName)
IsCssAsset(e) == e.type = "asset" /\ EXT_CSS(e.fileName)

\* the classify loop: assets[fileName] = chunkOrAsset
Classify(b) == SelectSeq(b, IsCssAsset)

-----------------------------------------------------------------------------
(* Purge engine *)

NoCss == Css(FALSE, <<>>)

RECURSIVE Keep(_, _)
Keep(rules, kept) ==
    IF rules = <<>> THEN <<>>
    ELSE (IF Head(rules) \in kept THEN <<Head(rules)>> ELSE <<>>)
         \o Keep(Tail(rules), kept)

\* how the promise of new PurgeCSS().purge(options) can settle: rejected,
\* resolved with [] or resolved with [{css}] where css keeps some of the rules
PurgeOutcomes(options) ==
    { [kind |-> "error", css |-> NoCss], [kind |-> "empty", css |-> NoCss] }
    \cup { [kind |-> "result", css |-> Css(FALSE, Keep(options.css.raw.rules, kept))] :
             kept \in SUBSET Range(options.css.raw.rules) }

\* path.join(root, glob)
Join(root, glob) == root \o "/" \o glob

\* the options object of the purge() call for one asset
PurgeCall(opts, config, std, fileName, asset) ==
    [content |-> <<Join(config.val, "**/*.html")>> \o Nullish(UserContent(opts), <<>>),
     css |-> [raw |-> Trim(asset.source), name |-> fileName],
     rejected |-> TRUE,
     rejectedCss |-> TRUE,
     safelist |-> MergedSafelist(opts, std)]

\* variant: the source of the spread asset is not overridden
PurgedKeepsSource(asset, css) == [asset EXCEPT !.type = "asset"]

\* the asset handed to this.emitFile: { ...asset, type: 'asset', source: css }
Purged(asset, css) == [asset EXCEPT !.type = "asset", !.source = css]

\* variant: the original is deleted and nothing is emitted
ReplaceOpsDeleteOnly(asset, outcome) ==
    IF outcome.kind = "result"
    THEN << [op |-> "delete", key |-> asset.fileName, file |-> asset] >>
    ELSE <<>>

\* if (purgeCSSResult[0]) { delete bundle[asset.fileName]; this.emitFile(...) }
\* as the operations on the host's bundle, in order
ReplaceOps(asset, outcome) ==
    IF outcome.kind = "result"
    THEN << [op |-> "delete", key |-> asset.fileName, file |-> asset],
            [op |-> "emit", key |-> asset.fileName,
             file |-> Purged(asset, outcome.css)] >>
    ELSE <<>>

RECURSIVE ApplyOps(_, _)
\* the bundle after the host has carried out ops
ApplyOps(b, ops) ==
    IF ops = <<>> THEN b
    ELSE ApplyOps(IF Head(ops).op = "delete"
                  THEN DeleteKey(b, Head(ops).key)
                  ELSE EmitFile(b, Head(ops).file),
                  Tail(ops))

-----------------------------------------------------------------------------
(* The plugin *)

NoError == [kind |-> "none", id |-> <<>>]

\* variant: the scan loop is left after its first iteration
ScanDoneAfterFirst(ids, n) == n > Len(ids) \/ n > 1

\* for (const id of moduleIds): the loop has no id left
ScanDone(ids, n) == n > Len(ids)

\* variant: a parse error is swallowed
ParseThrowsNever(code) == FALSE

\* this.parse(info.code) throws
ParseThrows(code) == ~Parse(code).ok

\* variant: the purge loop stops one asset early
PurgeDoneOneEarly(as, n) == n >= Len(as)

\* for (const [fileName, asset] of Object.entries(assets)): no asset left
PurgeDone(as, n) == n > Len(as)

\* purgeCss(purgeOptions): the closure state of a new plugin instance, in a
\* host whose module graph is any of ModuleInfos
Init ==
    /\ purgeOptions \in OptionsPool
    /\ viteConfig = NoStr
    /\ selectors = <<>>
    /\ standard = InitialStandard(purgeOptions)
    /\ moduleIds = <<>>
    /\ moduleInfo \in ModuleInfos
    /\ pc = "idle"
    /\ bundle = <<>>
    /\ assets = <<>>
    /\ i = 1 /\ j = 1 /\ k = 1
    /\ error = NoError
    /\ passNo = 0
    /\ bundle0 = <<>>
    /\ selectors0 = <<>>
    /\ scanned = <<>>
    /\ contrib = {}
    /\ validated = <<>>
    /\ calls = <<>>
    /\ results = <<>>
    /\ standard0 = standard
    /\ hostOps = <<>>

\* load(id), called by the host while it builds the module graph
Load(id) ==
    /\ pc = "idle"
    /\ moduleIds' = IF EXT_CSS(id) THEN moduleIds ELSE SetAdd(moduleIds, id)
    /\ UNCHANGED <<purgeOptions, viteConfig, selectors, standard, moduleInfo, pc,
                   bundle, assets, i, j, k, error, passNo>>
    /\ UNCHANGED historyVars

\* configResolved(config)
ConfigResolved(root) ==
    /\ pc = "idle"
    /\ viteConfig' = Str(root)
    /\ UNCHANGED <<purgeOptions, selectors, standard, moduleIds, moduleInfo, pc,
                   bundle, assets, i, j, k, error, passNo>>
    /\ UNCHANGED historyVars

\* the host builds again (watch mode) with the same plugin instance: the
\* module graph changes, the closure state stays
Rebuild ==
    /\ pc \in {"done", "failed"}
    /\ moduleInfo' \in ModuleInfos
    /\ pc' = "idle"
    /\ bundle' = <<>> /\ assets' = <<>>
    /\ i' = 1 /\ j' = 1 /\ k' = 1
    /\ error' = NoError
    /\ bundle0' = <<>> /\ selectors0' = selectors /\ scanned' = <<>>
    /\ contrib' = {} /\ validated' = <<>> /\ calls' = <<>> /\ results' = <<>>
    /\ standard0' = standard /\ hostOps' = <<>>
    /\ UNCHANGED <<closureVars, passNo>>

\* generateBundle(options, bundle) is called: const assets = {}
GenerateBundle(b) ==
    /\ pc \in {"idle", "done", "failed"}
    /\ viteConfig.has
    /\ passNo < MaxPasses
    /\ passNo' = passNo + 1
    /\ pc' = "scan"
    /\ bundle' = b /\ assets' = <<>>
    /\ i' = 1 /\ j' = 1 /\ k' = 1
    /\ error' = NoError
    /\ bundle0' = b /\ selectors0' = selectors /\ scanned' = <<>>
    /\ contrib' = {} /\ validated' = <<>> /\ calls' = <<>> /\ results' = <<>>
    /\ standard0' = standard /\ hostOps' = <<>>
    /\ UNCHANGED <<closureVars, moduleInfo>>

\* one iteration of the scan loop: the filter, this.parse, walk
ScanModule ==
    /\ pc = "scan"
    /\ ~ScanDone(moduleIds, i)
    /\ LET id == moduleIds[i]
           info == moduleInfo[id]
       IN IF Skipped(info)
          THEN /\ i' = i + 1
               /\ UNCHANGED <<selectors, pc, error, scanned, contrib>>
          ELSE IF ParseThrows(info.code.val)
          THEN /\ pc' = "failed"
               /\ error' = [kind |-> "parse", id |-> id]
               /\ UNCHANGED <<selectors, i, scanned, contrib>>
          ELSE LET tokens == WalkTokens(purgeOptions, Parse(info.code.val).ast)
               IN /\ selectors' = SetAddAll(selectors, tokens)
                  /\ scanned' = Append(scanned, id)
                  /\ contrib' = contrib \cup {<<id, t>> : t \in Range(tokens)}
                  /\ i' = i + 1
                  /\ UNCHANGED <<pc, error>>
    /\ UNCHANGED <<purgeOptions, viteConfig, standard, moduleIds, moduleInfo,
                   bundle, assets, j, k, passNo, bundle0, selectors0, validated,
                   calls, results, standard0, hostOps>>

\* the scan loop ends; the classify loop fills assets
ClassifyAssets ==
    /\ pc = "scan"
    /\ ScanDone(moduleIds, i)
    /\ assets' = Classify(bundle)
    /\ pc' = "validate"
    /\ j' = 1
    /\ UNCHANGED <<closureVars, moduleInfo, bundle, i, k, error, passNo>>
    /\ UNCHANGED historyVars

\* one iteration of the validation loop: try { parse; new RegExp; push }
ValidateSelector ==
    /\ pc = "validate"
    /\ j <= Len(selectors)
    /\ standard' = IF IsValidSelector(selectors[j])
                   THEN Append(standard, StrEntry(selectors[j]))
                   ELSE standard
    /\ validated' = Append(validated, selectors[j])
    /\ j' = j + 1
    /\ UNCHANGED <<purgeOptions, viteConfig, selectors, moduleIds, moduleInfo, pc,
                   bundle, assets, i, k, error, passNo, bundle0, selectors0,
                   scanned, contrib, calls, results, standard0, hostOps>>

\* the validation loop ends; the purge loop starts
ValidateEnd ==
    /\ pc = "validate"
    /\ j > Len(selectors)
    /\ pc' = "purge"
    /\ k' = 1
    /\ UNCHANGED <<closureVars, moduleInfo, bundle, assets, i, j, error, passNo>>
    /\ UNCHANGED historyVars

\* one iteration of the purge loop, up to the await
InvokePurge ==
    /\ pc = "purge"
    /\ ~PurgeDone(assets, k)
    /\ calls' = Append(calls, PurgeCall(purgeOptions, viteConfig, standard,
                                        assets[k].fileName, assets[k]))
    /\ pc' = "await"
    /\ UNCHANGED <<closureVars, moduleInfo, bundle, assets, i, j, k, error, passNo,
                   bundle0, selectors0, scanned, contrib, validated, results,
                   standard0, hostOps>>

\* the awaited purge() settles; on a result the asset is replaced
SettlePurge ==
    /\ pc = "await"
    /\ \E outcome \in PurgeOutcomes(calls[Len(calls)]) :
        /\ results' = Append(results, outcome)
        /\ IF outcome.kind = "error"
           THEN /\ pc' = "failed"
                /\ error' = [kind |-> "engine", id |-> assets[k].fileName]
                /\ UNCHANGED <<bundle, k, hostOps>>
           ELSE /\ bundle' = ApplyOps(bundle, ReplaceOps(assets[k], outcome))
                /\ hostOps' = hostOps \o ReplaceOps(assets[k], outcome)
                /\ k' = k + 1
                /\ pc' = "purge"
                /\ UNCHANGED error
    /\ UNCHANGED <<closureVars, moduleInfo, assets, i, j, passNo, bundle0,
                   selectors0, scanned, contrib, validated, calls, standard0>>

\* the purge loop ends: generateBundle resolves
Finish ==
    /\ pc = "purge"
    /\ PurgeDone(assets, k)
    /\ pc' = "done"
    /\ UNCHANGED <<closureVars, moduleInfo, bundle, assets, i, j, k, error, passNo>>
    /\ UNCHANGED historyVars

Next ==
    \/ \E id \in ModuleIdPool : Load(id)
    \/ ConfigResolved("/app")
    \/ Rebuild
    \/ \E b \in Bundles : GenerateBundle(b)
    \/ ScanModule
    \/ ClassifyAssets
    \/ ValidateSelector
    \/ ValidateEnd
    \/ InvokePurge
    \/ SettlePurge
    \/ Finish

Spec == Init /\ [][Next]_vars

-----------------------------------------------------------------------------
(* Vocabulary of the properties *)

\* the user's standard and greedy safelist entries ([] when not configured)
UserStd ==
    IF purgeOptions.defined /\ purgeOptions.safelist.has
       /\ purgeOptions.safelist.val.standard.has
    THEN purgeOptions.safelist.val.standard.val ELSE <<>>

UserGrd ==
    IF purgeOptions.defined /\ purgeOptions.safelist.has
       /\ purgeOptions.safelist.val.greedy.has
    THEN purgeOptions.safelist.val.greedy.val ELSE <<>>

FixedLen == Len(Baseline) + Len(UserStd)

\* the entries of a standard list after the baseline and the user's entries
Discovered(std) == SubSeq(std, FixedLen + 1, Len(std))

BothValid(t) == CssWhatParses(t) /\ RegExpCompiles(t)

\* CSS assets of the bundle the pass started with, in iteration order
CssAssets0 == SelectSeq(bundle0, LAMBDA e : e.type = "asset" /\ EXT_CSS(e.fileName))

\* entries of the bundle the pass started with that are no CSS asset
Others0 == SelectSeq(bundle0, LAMBDA e : ~(e.type = "asset" /\ EXT_CSS(e.fileName)))

EntriesAt(b, f) == SelectSeq(b, LAMBDA e : e.fileName = f)

\* the module is in the build: info exists, isIncluded is true, code available
Included(id) ==
    /\ moduleInfo[id].exists
    /\ moduleInfo[id].isIncluded = "true"
    /\ moduleInfo[id].code.has

TokensOf(id) == Range(WalkTokens(purgeOptions, Parse(moduleInfo[id].code.val).ast))

ScanComplete ==
    \A id \in Range(moduleIds) :
        Included(id) => /\ Has(scanned, id)
                        /\ TokensOf(id) \subseteq Range(selectors)

PastScan == pc \in {"validate", "purge", "await", "done"}
            \/ (pc = "failed" /\ error.kind = "engine")

-----------------------------------------------------------------------------
(* C1 *)

\* C1: an entry of the output collection whose file name does not match the
\* CSS extension or whose type is not 'asset' is never passed to the purge
\* engine and stays in the collection with unchanged content, whatever the
\* engine returns for the other entries.
C1_NonCssEntriesUntouched ==
    \A n \in 1..Len(Others0) :
        /\ \A c \in 1..Len(calls) : calls[c].css.name # Others0[n].fileName
        /\ EntriesAt(bundle, Others0[n].fileName) = <<Others0[n]>>

\* a pass ended after an asset was replaced, next to a chunk with a CSS name
\* and an asset without the CSS extension
C1_Witness ==
    /\ pc = "done"
    /\ \E n \in 1..Len(results) : results[n].kind = "result"
    /\ \E n \in 1..Len(Others0) : Others0[n].type = "chunk" /\ EXT_CSS(Others0[n].fileName)
    /\ \E n \in 1..Len(Others0) : Others0[n].type = "asset"

-----------------------------------------------------------------------------
(* C2 *)

\* C2: for a processed CSS asset, a result of the engine removes the original
\* entry under its file name and emits an asset with the same file name and
\* metadata whose content is the purged CSS; no result leaves the original
\* entry in place, unchanged, and emits nothing for it.
C2_ReplaceOnResultOnly ==
    \A n \in 1..Len(results) :
        LET f == calls[n].css.name
            orig == Lookup(bundle0, f)
            new == [fileName |-> f, type |-> "asset", name |-> orig.name,
                    source |-> results[n].css]
        IN /\ results[n].kind = "result" =>
                /\ EntriesAt(bundle, f) = <<new>>
                /\ \E m \in 1..Len(hostOps) : /\ hostOps[m].op = "delete"
                                              /\ hostOps[m].key = f
                /\ Count(hostOps, [op |-> "emit", key |-> f, file |-> new]) = 1
           /\ results[n].kind = "empty" =>
                /\ EntriesAt(bundle, f) = <<orig>>
                /\ \A m \in 1..Len(hostOps) : hostOps[m].key # f

\* one asset of a pass was replaced by content that differs from the
\* original, another got no result
C2_Witness ==
    /\ \E n \in 1..Len(results) :
          /\ results[n].kind = "result"
          /\ results[n].css # Lookup(bundle0, calls[n].css.name).source
          /\ results[n].css # Trim(Lookup(bundle0, calls[n].css.name).source)
    /\ \E n \in 1..Len(results) : results[n].kind = "empty"

-----------------------------------------------------------------------------
(* C3 *)

\* C3: whatever the user configuration, the safelist passed to the engine
\* has a standard list that is the six baseline entries, then the user's
\* standard entries in order, then validated discovered selectors only and
\* all of them, and a greedy list that is the baseline pattern followed by
\* the user's greedy entries.
C3_SafelistShape ==
    \A n \in 1..Len(calls) :
        LET std == calls[n].safelist.standard
        IN /\ Len(Baseline) = 6
           /\ Len(std) >= FixedLen
           /\ SubSeq(std, 1, 6) =
                << StrEntry("*"), StrEntry("html"), StrEntry("body"),
                   ReEntry("aria-current"), ReEntry("svelte-"),
                   ReEntry("^\\:[-a-z]+$") >>
           /\ SubSeq(std, 7, FixedLen) = UserStd
           /\ \A m \in 1..Len(Discovered(std)) :
                /\ Discovered(std)[m].kind = "string"
                /\ Has(selectors, Discovered(std)[m].src)
                /\ BothValid(Discovered(std)[m].src)
           /\ \A t \in Range(selectors) :
                BothValid(t) => Has(Discovered(std), StrEntry(t))
           /\ calls[n].safelist.greedy = <<ReEntry("svelte-")>> \o UserGrd

\* the engine was called with user standard entries and discovered selectors
C3_Witness ==
    \E n \in 1..Len(calls) :
        /\ UserStd # <<>>
        /\ Len(calls[n].safelist.standard) > FixedLen

\* the engine was called under a configuration with standard: [], greedy: []
C3_WitnessEmpty ==
    \E n \in 1..Len(calls) :
        /\ purgeOptions.defined /\ purgeOptions.safelist.has
        /\ purgeOptions.safelist.val.standard = Some(<<>>)
        /\ Len(calls[n].safelist.standard) > FixedLen

-----------------------------------------------------------------------------
(* C4 *)

\* C4: a discovered token is appended to the standard safelist only if it
\* parses as a selector and compiles as a pattern; a token failing either is
\* discarded, the pass does not fail in validation, and the tokens after it
\* are still validated.
C4_OnlyValidTokensAppended ==
    /\ Len(standard) >= Len(standard0)
    /\ SubSeq(standard, 1, Len(standard0)) = standard0
    /\ LET added == SubSeq(standard, Len(standard0) + 1, Len(standard))
           good == SelectSeq(validated, BothValid)
       IN added = [n \in 1..Len(good) |-> StrEntry(good[n])]
    /\ validated = SubSeq(selectors, 1, Len(validated))
    /\ pc \in {"purge", "await", "done"} => validated = selectors
    /\ pc = "failed" => \/ error.kind = "parse" /\ validated = <<>>
                        \/ error.kind = "engine" /\ validated = selectors

\* validation went past a token failing the selector parse, one failing the
\* pattern compilation, and appended a later valid one
C4_Witness ==
    /\ pc = "purge"
    /\ \E a, b, c \in 1..Len(validated) :
          /\ a < c /\ b < c
          /\ ~CssWhatParses(validated[a]) /\ RegExpCompiles(validated[a])
          /\ ~RegExpCompiles(validated[b])
          /\ BothValid(validated[c])
          /\ Has(Discovered(standard), StrEntry(validated[c]))

-----------------------------------------------------------------------------
(* C5 *)

\* C5: no token of a module that is not included in the build is in the
\* selector set the pass validates and purges with: every token of the set
\* comes from a tracked module whose info exists, whose isIncluded is true
\* and whose code is available, and no tracked id has the CSS extension.
C5_NoTokenFromExcludedModule ==
    /\ \A id \in Range(moduleIds) : ~EXT_CSS(id)
    /\ \A id \in Range(scanned) : Has(moduleIds, id) /\ Included(id)
    /\ PastScan =>
         \A t \in Range(selectors) :
            \E id \in Range(moduleIds) : Included(id) /\ t \in TokensOf(id)

\* C5 within one pass: what the pass adds to the selector set comes from the
\* included tracked modules it scanned
C5_PassAddsIncludedOnly ==
    /\ \A id \in Range(moduleIds) : ~EXT_CSS(id)
    /\ \A id \in Range(scanned) : Has(moduleIds, id) /\ Included(id)
    /\ \A p \in contrib : Has(scanned, p[1]) /\ p[2] \in TokensOf(p[1])
    /\ Range(selectors) = Range(selectors0) \cup {p[2] : p \in contrib}

-----------------------------------------------------------------------------
(* C6 *)

\* C6: the phases of a pass are ordered: every tracked included module is
\* scanned before the first token is validated, every token is validated
\* before the first engine call, and every engine call of the pass gets the
\* same complete safelist, which does not change between the calls.
C6_PhasesOrdered ==
    /\ (validated # <<>> \/ calls # <<>> \/ PastScan) => ScanComplete
    /\ calls # <<>> =>
         /\ validated = selectors
         /\ \A t \in Range(selectors) :
               BothValid(t) => Has(Discovered(standard), StrEntry(t))
    /\ \A n \in 1..Len(calls) :
         /\ calls[n].safelist.standard = standard
         /\ calls[n].safelist = calls[1].safelist

\* two engine calls were made in a pass that scanned two modules and
\* appended discovered selectors
C6_Witness ==
    /\ Len(calls) = 2
    /\ Len(scanned) = 2
    /\ Len(standard) > Len(standard0)

-----------------------------------------------------------------------------
(* C7 *)

\* C7: when the code of a tracked included module does not parse, the pass
\* fails with that error instead of skipping the module, and at that point
\* no engine call was made and the output collection is as it was.
C7_ParseErrorIsFatal ==
    /\ (pc = "failed" /\ error.kind = "parse") =>
         /\ Has(moduleIds, error.id) /\ Included(error.id)
         /\ ~Parse(moduleInfo[error.id].code.val).ok
         /\ calls = <<>>
         /\ hostOps = <<>>
         /\ bundle = bundle0
    /\ PastScan =>
         \A id \in Range(moduleIds) :
            Included(id) => Parse(moduleInfo[id].code.val).ok

\* a pass over a bundle with a CSS asset failed on a module that follows a
\* scanned one
C7_Witness ==
    /\ pc = "failed" /\ error.kind = "parse"
    /\ scanned # <<>>
    /\ CssAssets0 # <<>>

-----------------------------------------------------------------------------
(* C8 *)

\* C8: replacement is atomic per asset: the bundle is only changed by a
\* deletion immediately followed by the emission under the same file name,
\* after the result for that asset arrived; so whenever the pass is suspended
\* or has ended, every CSS file name of the initial bundle is present once,
\* with its original content or its own purged content.
C8_AtomicReplacement ==
    /\ Len(hostOps) % 2 = 0
    /\ \A n \in 1..Len(hostOps) :
         n % 2 = 1 =>
           /\ hostOps[n].op = "delete"
           /\ hostOps[n + 1].op = "emit"
           /\ hostOps[n + 1].key = hostOps[n].key
           /\ hostOps[n + 1].file.fileName = hostOps[n].key
           /\ \E m \in 1..Len(results) :
                /\ results[m].kind = "result"
                /\ calls[m].css.name = hostOps[n].key
                /\ hostOps[n + 1].file.source = results[m].css
    /\ \A n \in 1..Len(CssAssets0) :
         LET f == CssAssets0[n].fileName
         IN /\ Len(EntriesAt(bundle, f)) = 1
            /\ \/ EntriesAt(bundle, f)[1].source = CssAssets0[n].source
               \/ \E m \in 1..Len(results) :
                    /\ results[m].kind = "result"
                    /\ calls[m].css.name = f
                    /\ EntriesAt(bundle, f)[1].source = results[m].css

\* the pass is suspended on its second engine call after replacing the
\* first asset
C8_Witness ==
    /\ pc = "await"
    /\ Len(calls) = 2
    /\ results[1].kind = "result"
    /\ Len(hostOps) = 2

\* the pass ended by an engine error after replacing the first asset
C8_WitnessError ==
    /\ pc = "failed" /\ error.kind = "engine"
    /\ Len(results) = 2
    /\ results[1].kind = "result"

-----------------------------------------------------------------------------
(* C9 *)

\* C9: when a pass completes normally, every CSS asset that was in the
\* bundle at classification was passed to the engine exactly once, in
\* order, and awaited; emitted assets are not passed again.
C9_EachCssAssetPurgedOnce ==
    pc = "done" =>
        /\ Len(calls) = Len(CssAssets0)
        /\ Len(results) = Len(calls)
        /\ \A n \in 1..Len(calls) :
             /\ calls[n].css.name = CssAssets0[n].fileName
             /\ calls[n].css.raw = [CssAssets0[n].source EXCEPT !.pad = FALSE]
        /\ \A n \in 1..Len(results) : results[n].kind # "error"

\* a pass completed after purging two assets and emitting both
C9_Witness ==
    /\ pc = "done"
    /\ Len(calls) = 2
    /\ Len(hostOps) = 4

-----------------------------------------------------------------------------
(* C10 *)

\* C10: in every pass on the same plugin instance the standard safelist
\* passed to the engine holds each validated discovered selector exactly
\* once (baseline + user entries + distinct validated selectors), and no
\* selector found only in modules not included in the current pass.
C10_EachSelectorOnce ==
    \A n \in 1..Len(calls) :
        LET std == calls[n].safelist.standard
        IN /\ Len(std) = 6 + Len(UserStd)
                         + Cardinality({t \in Range(selectors) : BothValid(t)})
           /\ \A m \in 1..Len(Discovered(std)) :
                \E id \in Range(moduleIds) :
                    Included(id) /\ Discovered(std)[m].src \in TokensOf(id)

\* C10, first half alone: no duplicates among the discovered entries
C10_NoDuplicates ==
    \A n \in 1..Len(calls) : NoDuplicates(Discovered(calls[n].safelist.standard))

====
